---- MODULE Spec2Model ----
(***************************************************************************)
(* Model of the scrape orchestration of scraper.py: rotate_ip,             *)
(* get_random_user_agent, get_random_viewport, stealth_context and         *)
(* scrape_url, run as asyncio tasks on one event loop.                     *)
(*                                                                         *)
(* A task runs without interruption from one await to the next, so every   *)
(* action below after the first await is "the awaited call completes and   *)
(* the task runs on to its next await".  rotate_ip is an ordinary          *)
(* (blocking) function: its steps are separate actions, but the variable   *)
(* running keeps every other task from stepping while one task is inside   *)
(* the synchronous prefix of scrape_url (lines 48-51).                     *)
(***************************************************************************)
EXTENDS Integers, Sequences, FiniteSets, TLC

\* ------------------------------------------------------------------ bounds
\* How many characters beyond the result limit a page or an error
\* description may run.
MaxExtra == 1

\* -------------------------------------------------------- program constants
\* content[:2000]
ResultLimit == 2000

\* The concurrent calls of scrape_url (one per request of the endpoint).
Fetches == {"f1", "f2"}
NoTask == "none"

\* Engine instances are allocated on launch, one identity per launch.
EngineIds == 1..Cardinality(Fetches)
\* The value of the locals browser and page while they are unbound.
NoEngine == 0

\* get_random_user_agent: the candidate list
UserAgents ==
  { "Mozilla/5.0 (Windows NT 10.0; Win64; x64) AppleWebKit/537.36 Chrome/114.0.0.0 Safari/537.36",
    "Mozilla/5.0 (Macintosh; Intel Mac OS X 10_15_7) AppleWebKit/537.36 Chrome/113.0.0.0 Safari/537.36" }

\* get_random_viewport: widths and heights
widths == {1280, 1366, 1440, 1920}
heights == {720, 768, 900, 1080}

\* scrape_url: proxy = {"server": "socks5://127.0.0.1:9050"}
proxy == [server |-> "socks5://127.0.0.1:9050"]

None == "None"

\* ------------------------------------------------------------------ strings
\* A string is the sequence of its characters.
Min(a, b) == IF a < b THEN a ELSE b

Digits == <<"0", "1", "2", "3", "4", "5", "6", "7", "8", "9">>

\* A text of n characters whose characters differ from place to place, and
\* from the text of any other length at the same place.
Filler(n) == [i \in 1..n |-> Digits[((i + n) % 10) + 1]]

OkPage == <<"<", "h", "t", "m", "l", ">", "O", "K", "<", "/", "h", "t", "m", "l", ">">>

\* The lead of the error marker of scrape_url: "Error: ".
ErrorPrefix == <<"E", "r", "r", "o", "r", ":">>
ErrorLead == ErrorPrefix \o <<" ">>

\* page.content() hands back the serialised document, doctype and root
\* element: markup, whose first character is "<".
Markup(n) == <<"<">> \o Filler(n - 1)

\* What page.content() can hand back: a short page, a page of exactly the
\* limit, and pages that run over it.
Pages ==
  {OkPage} \cup {Markup(n) : n \in ResultLimit..(ResultLimit + MaxExtra)}

\* What str(e) can be for the exception of a playwright call: a short
\* message, and messages that make the marker run over the limit.
TimeoutMsg == <<"T", "i", "m", "e", "o", "u", "t">>
ErrDescs ==
  {TimeoutMsg} \cup
  {Filler(ResultLimit - Len(ErrorLead) + k) : k \in 1..MaxExtra}

\* A marker without its lead: f"{e}".
ErrorMarkerBare(e) == e

\* f"Error: {e}"
ErrorMarker(e) == ErrorLead \o e

\* A slice that forgets the bound: content[:].
TruncateNoBound(s) == s

\* A slice taken from the wrong end: content[-2000:].
TruncateTail(s) ==
  IF Len(s) <= ResultLimit THEN s ELSE SubSeq(s, Len(s) - ResultLimit + 1, Len(s))

\* content[:2000]
Truncate(s) == SubSeq(s, 1, Min(Len(s), ResultLimit))

StartsWith(s, p) == Len(s) >= Len(p) /\ SubSeq(s, 1, Len(p)) = p

\* -------------------------------------------------------------------- state
VARIABLES
  pc,          \* per task: the call it is suspended in or about to make
  running,     \* the task inside its synchronous prefix, or NoTask
  log,         \* per task: the calls made and how each ended, in order
  ctl,         \* per task: the control connection of its rotate_ip
  circuit,     \* the task whose NEWNYM signal the daemon took last
  user_agent,  \* per task: local of scrape_url
  viewport,    \* per task: local of scrape_url
  playwright,  \* per task: the driver of its async_playwright()
  engines,     \* the browser engine instances, by identity
  browser,     \* per task: local of scrape_url (an engine identity)
  page,        \* per task: local of scrape_url (the page of that engine)
  content,     \* per task: local of scrape_url
  exc,         \* per task: the exception in flight, or None
  outcome,     \* per task: "pending", "returned" or "raised"
  result,      \* per task: the string scrape_url returned
  error,       \* per task: the exception scrape_url raised
  at,          \* ingest_data: the statement it is at, or "idle"
  file_name,   \* ingest_data: file_obj.name of the call
  object,      \* ingest_data: its local, the loader instance made
  called,      \* ingest_data: the loader method it called
  raised,      \* ingest_data: the exception that ended the call
  calls        \* ingest_data: calls made so far

scraperVars ==
  <<pc, running, log, ctl, circuit, user_agent, viewport, playwright,
    engines, browser, page, content, exc, outcome, result, error>>

loaderVars == <<at, file_name, object, called, raised, calls>>

vars == <<scraperVars, loaderVars>>

\* A local that holds no string yet (no string has this as its text).
Unbound == <<"unbound">>
NoViewport == [width |-> 0, height |-> 0]


AbsentEngine ==
  [state |-> "absent", driver |-> NoTask, closes |-> 0, contexts |-> 0,
   pages |-> 0, scripts |-> 0, navs |-> 0, via |-> NoTask]

Init ==
  /\ pc = [f \in Fetches |-> "idle"]
  /\ running = NoTask
  /\ log = [f \in Fetches |-> <<>>]
  /\ ctl = [f \in Fetches |-> "none"]
  /\ circuit = NoTask
  /\ user_agent = [f \in Fetches |-> None]
  /\ viewport = [f \in Fetches |-> NoViewport]
  /\ playwright = [f \in Fetches |-> "none"]
  /\ engines = [e \in EngineIds |-> AbsentEngine]
  /\ browser = [f \in Fetches |-> NoEngine]
  /\ page = [f \in Fetches |-> NoEngine]
  /\ content = [f \in Fetches |-> Unbound]
  /\ exc = [f \in Fetches |-> None]
  /\ outcome = [f \in Fetches |-> "pending"]
  /\ result = [f \in Fetches |-> Unbound]
  /\ error = [f \in Fetches |-> None]
  /\ at = "idle"
  /\ file_name = <<>>
  /\ object = None
  /\ called = None
  /\ raised = None
  /\ calls = 0

\* ------------------------------------------------------------------ helpers
Ev(op, how) == <<op, how>>

Logged(f, evs) == log' = [log EXCEPT ![f] = @ \o evs]

Goes(f, to) == pc' = [pc EXCEPT ![f] = to]

\* The exceptions of the control channel and of the browser calls.
CtlErrors == {"ConnectionRefused", "AuthenticationFailure", "SignalFailure"}

\* An exception leaves scrape_url: nothing encloses the raising call.
Raises(f, e) ==
  /\ outcome' = [outcome EXCEPT ![f] = "raised"]
  /\ error' = [error EXCEPT ![f] = e]
  /\ UNCHANGED result

\* A launch that hands every caller the same engine (a browser kept at
\* module level and shared by the calls).
FreshEngineShared == CHOOSE e \in EngineIds : \A d \in EngineIds : e <= d

\* The first engine identity not yet handed out.
FreshEngine == CHOOSE e \in EngineIds :
  /\ engines[e].state = "absent"
  /\ \A d \in EngineIds : d < e => engines[d].state # "absent"

\* ---------------------------------------------------------------- rotate_ip
\* A scrape_url that goes to the browser without its rotate_ip() call.
ScrapeUrlNoRotation(f) ==
  /\ running = NoTask
  /\ pc[f] = "idle"
  /\ running' = f
  /\ Goes(f, "fingerprint")
  /\ UNCHANGED <<log, ctl, circuit, user_agent, viewport, playwright, engines,
                 browser, page, content, exc, outcome, result, error>>

\* The stages of a call between the end of its rotate_ip and the end of
\* its page.goto.
BetweenStages ==
  {"playwright_enter", "launch", "new_context", "new_page", "add_init_script",
   "goto"}

\* A scrape_url behind a gate shared by all calls: no call starts its
\* rotation while another is between its rotation and its navigation.
ScrapeUrlGated(f) ==
  /\ running = NoTask
  /\ pc[f] = "idle"
  /\ \A g \in Fetches \ {f} : pc[g] \notin BetweenStages
  /\ running' = f
  /\ Goes(f, "from_port")
  /\ Logged(f, <<Ev("rotate_ip", "call")>>)
  /\ UNCHANGED <<ctl, circuit, user_agent, viewport, playwright, engines,
                 browser, page, content, exc, outcome, result, error>>

\* scrape_url is called and runs to its first call, rotate_ip(), which is
\* Controller.from_port(port=9051).
ScrapeUrl(f) ==
  /\ running = NoTask
  /\ pc[f] = "idle"
  /\ running' = f
  /\ Goes(f, "from_port")
  /\ Logged(f, <<Ev("rotate_ip", "call")>>)
  /\ UNCHANGED <<ctl, circuit, user_agent, viewport, playwright, engines,
                 browser, page, content, exc, outcome, result, error>>

\* Controller.from_port: the connection is made, or it is refused and the
\* error leaves rotate_ip and scrape_url at once (no with block was entered).
FromPort(f) ==
  /\ running = f
  /\ pc[f] = "from_port"
  /\ \/ /\ ctl' = [ctl EXCEPT ![f] = "open"]
        /\ Goes(f, "authenticate")
        /\ Logged(f, <<Ev("from_port", "ok")>>)
        /\ UNCHANGED <<running, outcome, result, error>>
     \/ /\ Goes(f, "done")
        /\ Logged(f, <<Ev("from_port", "raise"), Ev("rotate_ip", "raise"),
                       Ev("scrape_url", "raise")>>)
        /\ Raises(f, "ConnectionRefused")
        /\ running' = NoTask
        /\ UNCHANGED ctl
  /\ UNCHANGED <<circuit, user_agent, viewport, playwright, engines,
                 browser, page, content, exc>>

\* controller.authenticate()
Authenticate(f) ==
  /\ running = f
  /\ pc[f] = "authenticate"
  /\ \/ /\ ctl' = [ctl EXCEPT ![f] = "authenticated"]
        /\ Goes(f, "signal")
        /\ Logged(f, <<Ev("authenticate", "ok")>>)
        /\ UNCHANGED exc
     \/ /\ exc' = [exc EXCEPT ![f] = "AuthenticationFailure"]
        /\ Goes(f, "controller_exit")
        /\ Logged(f, <<Ev("authenticate", "raise")>>)
        /\ UNCHANGED ctl
  /\ UNCHANGED <<running, circuit, user_agent, viewport, playwright,
                 engines, browser, page, content, outcome, result, error>>

\* controller.signal(Signal.NEWNYM)
SignalNewnym(f) ==
  /\ running = f
  /\ pc[f] = "signal"
  /\ \/ /\ circuit' = f
        /\ Logged(f, <<Ev("signal", "ok")>>)
        /\ UNCHANGED exc
     \/ /\ exc' = [exc EXCEPT ![f] = "SignalFailure"]
        /\ Logged(f, <<Ev("signal", "raise")>>)
        /\ UNCHANGED circuit
  /\ Goes(f, "controller_exit")
  /\ UNCHANGED <<running, ctl, user_agent, viewport, playwright,
                 engines, browser, page, content, outcome, result, error>>

\* A rotate_ip that closes the controller after the signal instead of in a
\* with block: an exception passes the close by.
ControllerExitNoWith(f) ==
  /\ running = f
  /\ pc[f] = "controller_exit"
  /\ IF exc[f] # None
       THEN /\ Goes(f, "done")
            /\ Logged(f, <<Ev("rotate_ip", "raise"), Ev("scrape_url", "raise")>>)
            /\ Raises(f, exc[f])
            /\ exc' = [exc EXCEPT ![f] = None]
            /\ running' = NoTask
            /\ UNCHANGED ctl
       ELSE /\ ctl' = [ctl EXCEPT ![f] = "closed"]
            /\ Goes(f, "fingerprint")
            /\ Logged(f, <<Ev("rotate_ip", "ok")>>)
            /\ UNCHANGED <<running, exc, outcome, result, error>>
  /\ UNCHANGED <<circuit, user_agent, viewport, playwright, engines,
                 browser, page, content>>

\* A rotate_ip that swallows the failure of the control channel and lets
\* scrape_url go on.
ControllerExitSwallows(f) ==
  /\ running = f
  /\ pc[f] = "controller_exit"
  /\ ctl' = [ctl EXCEPT ![f] = "closed"]
  /\ exc' = [exc EXCEPT ![f] = None]
  /\ Goes(f, "fingerprint")
  /\ Logged(f, <<Ev("rotate_ip", "ok")>>)
  /\ UNCHANGED <<running, circuit, user_agent, viewport, playwright, engines,
                 browser, page, content, outcome, result, error>>

\* The with block of rotate_ip is left: the controller is closed, and an
\* exception in flight goes on to the caller of scrape_url.
ControllerExit(f) ==
  /\ running = f
  /\ pc[f] = "controller_exit"
  /\ ctl' = [ctl EXCEPT ![f] = "closed"]
  /\ IF exc[f] # None
       THEN /\ Goes(f, "done")
            /\ Logged(f, <<Ev("rotate_ip", "raise"), Ev("scrape_url", "raise")>>)
            /\ Raises(f, exc[f])
            /\ exc' = [exc EXCEPT ![f] = None]
            /\ running' = NoTask
       ELSE /\ Goes(f, "fingerprint")
            /\ Logged(f, <<Ev("rotate_ip", "ok")>>)
            /\ UNCHANGED <<running, exc, outcome, result, error>>
  /\ UNCHANGED <<circuit, user_agent, viewport, playwright, engines,
                 browser, page, content>>

\* ------------------------------------------------------------- fingerprint
\* random.choice over the candidate list
get_random_user_agent == UserAgents

\* A viewport generator with a width that is not on the list.
get_random_viewport_stray == [width : widths \cup {1024}, height : heights]

\* random.choice over widths and over heights, each on its own
get_random_viewport == [width : widths, height : heights]

\* Lines 49-53: the fingerprint is drawn and async_playwright() is entered,
\* the first await of the task.
Fingerprint(f) ==
  /\ running = f
  /\ pc[f] = "fingerprint"
  /\ \E ua \in get_random_user_agent, vp \in get_random_viewport :
       /\ user_agent' = [user_agent EXCEPT ![f] = ua]
       /\ viewport' = [viewport EXCEPT ![f] = vp]
  /\ running' = NoTask
  /\ Goes(f, "playwright_enter")
  /\ Logged(f, <<Ev("async_playwright", "call")>>)
  /\ UNCHANGED <<ctl, circuit, playwright, engines, browser, page, content,
                 exc, outcome, result, error>>

\* ---------------------------------------------------------- stealth_context
\* An exception of a call inside stealth_context: no handler encloses it
\* there or in scrape_url, so it travels to the exit of the async with
\* block.  The frame of stealth_context is gone, and with it the only
\* reference to the engine it launched.
SessionFails(f, op, e) ==
  /\ exc' = [exc EXCEPT ![f] = e]
  /\ browser' = [browser EXCEPT ![f] = NoEngine]
  /\ page' = [page EXCEPT ![f] = NoEngine]
  /\ user_agent' = [user_agent EXCEPT ![f] = None]
  /\ viewport' = [viewport EXCEPT ![f] = NoViewport]
  /\ Goes(f, "playwright_exit")
  /\ Logged(f, <<Ev(op, "raise"), Ev("stealth_context", "raise")>>)

\* async_playwright() has started its driver; stealth_context is called and
\* awaits playwright.chromium.launch(headless=True).
PlaywrightEnter(f) ==
  /\ running = NoTask
  /\ pc[f] = "playwright_enter"
  /\ playwright' = [playwright EXCEPT ![f] = "started"]
  /\ Goes(f, "launch")
  /\ Logged(f, <<Ev("async_playwright", "ok"), Ev("stealth_context", "call"),
                 Ev("launch", "call")>>)
  /\ UNCHANGED <<running, ctl, circuit, user_agent, viewport, engines,
                 browser, page, content, exc, outcome, result, error>>

\* browser = await playwright.chromium.launch(headless=True)
Launch(f) ==
  /\ running = NoTask
  /\ pc[f] = "launch"
  /\ \/ /\ engines' = [engines EXCEPT ![FreshEngine] =
                         [AbsentEngine EXCEPT !.state = "open", !.driver = f]]
        /\ browser' = [browser EXCEPT ![f] = FreshEngine]
        /\ Goes(f, "new_context")
        /\ Logged(f, <<Ev("launch", "ok"), Ev("new_context", "call")>>)
        /\ UNCHANGED <<user_agent, viewport, page, exc>>
     \/ /\ SessionFails(f, "launch", "LaunchError")
        /\ UNCHANGED engines
  /\ UNCHANGED <<running, ctl, circuit, playwright, content, outcome, result,
                 error>>

\* The arguments of the new_context call of a task that is in that call:
\* browser.new_context(proxy=proxy, user_agent=user_agent,
\*     viewport=viewport, locale="en-US", java_script_enabled=True)
ContextOptions(f) ==
  [proxy |-> proxy, user_agent |-> user_agent[f], viewport |-> viewport[f],
   locale |-> "en-US", java_script_enabled |-> TRUE]

\* context = await browser.new_context(...).  The engine reads the options
\* while it makes the context; nothing reads user_agent and viewport after
\* this call, so the model lets go of them here.
NewContext(f) ==
  /\ running = NoTask
  /\ pc[f] = "new_context"
  /\ \/ /\ engines' = [engines EXCEPT ![browser[f]].contexts = @ + 1]
        /\ user_agent' = [user_agent EXCEPT ![f] = None]
        /\ viewport' = [viewport EXCEPT ![f] = NoViewport]
        /\ Goes(f, "new_page")
        /\ Logged(f, <<Ev("new_context", "ok"), Ev("new_page", "call")>>)
        /\ UNCHANGED <<browser, page, exc>>
     \/ /\ SessionFails(f, "new_context", "ContextError")
        /\ UNCHANGED engines
  /\ UNCHANGED <<running, ctl, circuit, playwright, content, outcome, result,
                 error>>

\* page = await context.new_page()
NewPage(f) ==
  /\ running = NoTask
  /\ pc[f] = "new_page"
  /\ \/ /\ engines' = [engines EXCEPT ![browser[f]].pages = @ + 1]
        /\ page' = [page EXCEPT ![f] = browser[f]]
        /\ Goes(f, "add_init_script")
        /\ Logged(f, <<Ev("new_page", "ok"), Ev("add_init_script", "call")>>)
        /\ UNCHANGED <<user_agent, viewport, browser, exc>>
     \/ /\ SessionFails(f, "new_page", "PageError")
        /\ UNCHANGED engines
  /\ UNCHANGED <<running, ctl, circuit, playwright, content, outcome, result,
                 error>>

\* A stealth_context that returns its session without installing the
\* script.
AddInitScriptSkipped(f) ==
  /\ running = NoTask
  /\ pc[f] = "add_init_script"
  /\ Goes(f, "goto")
  /\ Logged(f, <<Ev("stealth_context", "ok"), Ev("goto", "call")>>)
  /\ UNCHANGED <<running, ctl, circuit, user_agent, viewport, playwright,
                 engines, browser, page, content, exc, outcome, result, error>>

\* await page.add_init_script(...); return browser, page; then scrape_url
\* enters its try block and awaits page.goto(url, timeout=60000).
AddInitScript(f) ==
  /\ running = NoTask
  /\ pc[f] = "add_init_script"
  /\ \/ /\ engines' = [engines EXCEPT ![page[f]].scripts = @ + 1]
        /\ Goes(f, "goto")
        /\ Logged(f, <<Ev("add_init_script", "ok"), Ev("stealth_context", "ok"),
                       Ev("goto", "call")>>)
        /\ UNCHANGED <<user_agent, viewport, browser, page, exc>>
     \/ /\ SessionFails(f, "add_init_script", "InitScriptError")
        /\ UNCHANGED engines
  /\ UNCHANGED <<running, ctl, circuit, playwright, content, outcome, result,
                 error>>

\* --------------------------------------------------------------- scrape_url
\* A handler with no finally clause after it: the close is skipped when
\* the try block raised.
CaughtNoFinally(f, op, e) ==
  /\ content' = [content EXCEPT ![f] = ErrorMarker(e)]
  /\ Goes(f, "playwright_exit")
  /\ Logged(f, <<Ev(op, "raise")>>)

\* except Exception as e: content = f"Error: {e}"; then the finally clause
\* awaits browser.close().
Caught(f, op, e) ==
  /\ content' = [content EXCEPT ![f] = ErrorMarker(e)]
  /\ Goes(f, "close")
  /\ Logged(f, <<Ev(op, "raise"), Ev("close", "call")>>)

\* await page.goto(url, timeout=60000)
Goto(f) ==
  /\ running = NoTask
  /\ pc[f] = "goto"
  /\ engines' = [engines EXCEPT ![page[f]] =
                   [@ EXCEPT !.navs = @ + 1, !.via = circuit]]
  /\ \/ /\ Goes(f, "wait_for_timeout")
        /\ Logged(f, <<Ev("goto", "ok"), Ev("wait_for_timeout", "call")>>)
        /\ UNCHANGED content
     \/ \E e \in ErrDescs : Caught(f, "goto", e)
  /\ UNCHANGED <<running, ctl, circuit, user_agent, viewport, playwright,
                 browser, page, exc, outcome, result, error>>

\* await page.wait_for_timeout(3000)
WaitForTimeout(f) ==
  /\ running = NoTask
  /\ pc[f] = "wait_for_timeout"
  /\ \/ /\ Goes(f, "content")
        /\ Logged(f, <<Ev("wait_for_timeout", "ok"), Ev("content", "call")>>)
        /\ UNCHANGED content
     \/ \E e \in ErrDescs : Caught(f, "wait_for_timeout", e)
  /\ UNCHANGED <<running, ctl, circuit, user_agent, viewport, playwright,
                 engines, browser, page, exc, outcome, result, error>>

\* content = await page.content()
Content(f) ==
  /\ running = NoTask
  /\ pc[f] = "content"
  /\ \/ \E p \in Pages :
          /\ content' = [content EXCEPT ![f] = p]
          /\ Goes(f, "close")
          /\ Logged(f, <<Ev("content", "ok"), Ev("close", "call")>>)
     \/ \E e \in ErrDescs : Caught(f, "content", e)
  /\ UNCHANGED <<running, ctl, circuit, user_agent, viewport, playwright,
                 engines, browser, page, exc, outcome, result, error>>

\* finally: await browser.close().  A close that raises is in no try block
\* of its own: its exception replaces whatever the try block produced, and
\* the engine may or may not have gone down.
Close(f) ==
  /\ running = NoTask
  /\ pc[f] = "close"
  /\ \/ /\ engines' = [engines EXCEPT ![browser[f]] =
                         [@ EXCEPT !.state = "closed", !.closes = @ + 1]]
        /\ Logged(f, <<Ev("close", "ok")>>)
        /\ UNCHANGED exc
     \/ /\ \E st \in {"open", "closed"} :
             engines' = [engines EXCEPT ![browser[f]] =
                           [@ EXCEPT !.state = st, !.closes = @ + 1]]
        /\ Logged(f, <<Ev("close", "raise")>>)
        /\ exc' = [exc EXCEPT ![f] = "CloseError"]
  /\ Goes(f, "playwright_exit")
  /\ UNCHANGED <<running, ctl, circuit, user_agent, viewport, playwright,
                 browser, page, content, outcome, result, error>>

\* The engines a task's driver launched that nothing has closed.
Orphans(f) == {e \in EngineIds : engines[e].driver = f /\ engines[e].state = "open"}

\* A scrape_url whose handler encloses the whole async with block: every
\* exception, of whatever step, comes back as an error marker.
PlaywrightExitCatchAll(f) ==
  /\ running = NoTask
  /\ pc[f] = "playwright_exit"
  /\ playwright' = [playwright EXCEPT ![f] = "stopped"]
  /\ \E reap \in BOOLEAN :
       engines' = [e \in EngineIds |->
                     IF reap /\ e \in Orphans(f)
                       THEN [engines[e] EXCEPT !.state = "killed"]
                       ELSE engines[e]]
  /\ outcome' = [outcome EXCEPT ![f] = "returned"]
  /\ result' = [result EXCEPT ![f] =
                  IF exc[f] # None THEN Truncate(ErrorMarker(TimeoutMsg))
                                   ELSE Truncate(content[f])]
  /\ Logged(f, <<Ev("scrape_url", "return")>>)
  /\ exc' = [exc EXCEPT ![f] = None]
  /\ Goes(f, "done")
  /\ UNCHANGED <<running, ctl, circuit, user_agent, viewport, browser, page,
                 content, error>>

\* The async with block is left: the driver is stopped.  The source closes
\* no engine here; whether the stopping driver takes a still open engine
\* down with it is the driver's affair, so both outcomes are allowed.
\* Then an exception in flight leaves scrape_url, or line 65 returns
\* content[:2000].  The locals keep the values the frame had at its end.
PlaywrightExit(f) ==
  /\ running = NoTask
  /\ pc[f] = "playwright_exit"
  /\ playwright' = [playwright EXCEPT ![f] = "stopped"]
  /\ \E reap \in BOOLEAN :
       engines' = [e \in EngineIds |->
                     IF reap /\ e \in Orphans(f)
                       THEN [engines[e] EXCEPT !.state = "killed"]
                       ELSE engines[e]]
  /\ IF exc[f] # None
       THEN /\ Raises(f, exc[f])
            /\ Logged(f, <<Ev("scrape_url", "raise")>>)
       ELSE /\ outcome' = [outcome EXCEPT ![f] = "returned"]
            /\ result' = [result EXCEPT ![f] = Truncate(content[f])]
            /\ Logged(f, <<Ev("scrape_url", "return")>>)
            /\ UNCHANGED error
  /\ exc' = [exc EXCEPT ![f] = None]
  /\ Goes(f, "done")
  /\ UNCHANGED <<running, ctl, circuit, user_agent, viewport, browser, page,
                 content>>

\* ------------------------------------------------------------ specification
Step(f) ==
  \/ ScrapeUrl(f) /\ UNCHANGED loaderVars
  \/ FromPort(f) /\ UNCHANGED loaderVars
  \/ Authenticate(f) /\ UNCHANGED loaderVars
  \/ SignalNewnym(f) /\ UNCHANGED loaderVars
  \/ ControllerExit(f) /\ UNCHANGED loaderVars
  \/ Fingerprint(f) /\ UNCHANGED loaderVars
  \/ PlaywrightEnter(f) /\ UNCHANGED loaderVars
  \/ Launch(f) /\ UNCHANGED loaderVars
  \/ NewContext(f) /\ UNCHANGED loaderVars
  \/ NewPage(f) /\ UNCHANGED loaderVars
  \/ AddInitScript(f) /\ UNCHANGED loaderVars
  \/ Goto(f) /\ UNCHANGED loaderVars
  \/ WaitForTimeout(f) /\ UNCHANGED loaderVars
  \/ Content(f) /\ UNCHANGED loaderVars
  \/ Close(f) /\ UNCHANGED loaderVars
  \/ PlaywrightExit(f) /\ UNCHANGED loaderVars

Next == \E f \in Fetches : Step(f)

Spec == Init /\ [][Next]_vars

\* ============================================== UnifiedLoader.ingest_data
\* Calls of ingest_data explored one after another.
MaxCalls == 2

EndsWith(s, suffix) ==
  /\ Len(suffix) <= Len(s)
  /\ SubSeq(s, Len(s) - Len(suffix) + 1, Len(s)) = suffix

dot_csv == <<".", "c", "s", "v">>
dot_json == <<".", "j", "s", "o", "n">>
dot_xls == <<".", "x", "l", "s">>
dot_xlsx == <<".", "x", "l", "s", "x">>

\* Endings that none of the tests names: another format, upper case, an
\* extension without its dot, none at all.
OtherEndings ==
  { <<".", "t", "x", "t">>, <<".", "C", "S", "V">>, <<"j", "s", "o", "n">>,
    <<>> }

\* What precedes the ending; two of them hold an extension of their own.
Stems == { <<>>, <<"d">>, <<"d">> \o dot_csv, <<"d">> \o dot_xlsx }

FileNames ==
  { s \o x : s \in Stems,
             x \in {dot_csv, dot_json, dot_xls, dot_xlsx} \cup OtherEndings }

\* A call of ingest_data with a file object of the given name.
IngestData(name) ==
  /\ at = "idle"
  /\ calls < MaxCalls
  /\ calls' = calls + 1
  /\ file_name' = name
  /\ object' = None
  /\ called' = None
  /\ raised' = None
  /\ at' = "test"

\* if file_obj.name.endswith('.csv'): object = CSVLoader()
BranchCsv ==
  /\ at = "test"
  /\ EndsWith(file_name, dot_csv)
  /\ object' = "CSVLoader"
  /\ at' = "load_csv"
  /\ UNCHANGED <<file_name, called, raised, calls>>

\* elif file_obj.name.endswith('.json'): object = ExcelLoader()
BranchJson ==
  /\ at = "test"
  /\ ~ EndsWith(file_name, dot_csv)
  /\ EndsWith(file_name, dot_json)
  /\ object' = "ExcelLoader"
  /\ at' = "load_excel"
  /\ UNCHANGED <<file_name, called, raised, calls>>

\* elif file_obj.name.endswith(('.xls', '.xlsx')): object = JsonLoader()
BranchExcel ==
  /\ at = "test"
  /\ ~ EndsWith(file_name, dot_csv)
  /\ ~ EndsWith(file_name, dot_json)
  /\ EndsWith(file_name, dot_xls) \/ EndsWith(file_name, dot_xlsx)
  /\ object' = "JsonLoader"
  /\ at' = "load_json"
  /\ UNCHANGED <<file_name, called, raised, calls>>

\* else: raise ValueError('File type not supported')
BranchElse ==
  /\ at = "test"
  /\ ~ EndsWith(file_name, dot_csv)
  /\ ~ EndsWith(file_name, dot_json)
  /\ ~ (EndsWith(file_name, dot_xls) \/ EndsWith(file_name, dot_xlsx))
  /\ raised' = "ValueError: File type not supported"
  /\ at' = "idle"
  /\ UNCHANGED <<file_name, object, called, calls>>

\* return object.load_csv(file_obj), object.load_excel(file_obj) or
\* object.load_json(file_obj). Each of the three is defined with the one
\* parameter data_file and is called here on an instance, which passes the
\* instance too: the call ends in a TypeError before the method body runs.
LoadCall ==
  /\ at \in {"load_csv", "load_excel", "load_json"}
  /\ called' = at
  /\ raised' = "TypeError"
  /\ at' = "idle"
  /\ UNCHANGED <<file_name, object, calls>>

NextLoader ==
  \/ (\E name \in FileNames : IngestData(name)) /\ UNCHANGED scraperVars
  \/ BranchCsv /\ UNCHANGED scraperVars
  \/ BranchJson /\ UNCHANGED scraperVars
  \/ BranchExcel /\ UNCHANGED scraperVars
  \/ BranchElse /\ UNCHANGED scraperVars
  \/ LoadCall /\ UNCHANGED scraperVars

SpecLoader == Init /\ [][NextLoader]_vars

\* =================================================================== claims
Has(f, ev) == \E i \in DOMAIN log[f] : log[f][i] = ev

\* ev1 occurs in the log of f, and before every occurrence of ev2.
Before(f, ev1, ev2) ==
  \A j \in DOMAIN log[f] :
    log[f][j] = ev2 => \E i \in 1..(j - 1) : log[f][i] = ev1

Returned(f) == outcome[f] = "returned"
RaisedOut(f) == outcome[f] = "raised"

\* The try block of scrape_url ended in its except clause.
NavFailed(f) ==
  \/ Has(f, Ev("goto", "raise"))
  \/ Has(f, Ev("wait_for_timeout", "raise"))
  \/ Has(f, Ev("content", "raise"))

\* C1: every string scrape_url returns, page content and error marker
\* alike, has at most 2000 characters.
C1_ResultBounded ==
  \A f \in Fetches : Returned(f) => Len(result[f]) <= ResultLimit

\* Both paths returned, each with a text that was longer than the limit
\* before the cut.
C1_Witness ==
  \E f, g \in Fetches :
    /\ Returned(f) /\ Has(f, Ev("content", "ok"))
    /\ Len(content[f]) > ResultLimit /\ Len(result[f]) = ResultLimit
    /\ Returned(g) /\ NavFailed(g)
    /\ Len(content[g]) > ResultLimit /\ Len(result[g]) = ResultLimit

\* C6: on the success path the returned string is the prefix of the
\* extracted page content of length min(2000, length): the content itself
\* when it has at most 2000 characters, its first 2000 characters otherwise.
C6_ResultIsPrefix ==
  \A f \in Fetches :
    Returned(f) /\ Has(f, Ev("content", "ok")) =>
      /\ Len(result[f]) = Min(ResultLimit, Len(content[f]))
      /\ \A i \in 1..Len(result[f]) : result[f][i] = content[f][i]
      /\ Len(content[f]) <= ResultLimit => result[f] = content[f]

\* One call returned a short page whole and another a cut long page.
C6_Witness ==
  \E f, g \in Fetches :
    /\ Returned(f) /\ Has(f, Ev("content", "ok"))
    /\ content[f] = OkPage /\ result[f] = OkPage
    /\ Returned(g) /\ Has(g, Ev("content", "ok"))
    /\ Len(content[g]) = ResultLimit + 1 /\ Len(result[g]) = ResultLimit
    /\ result[g] # content[g]

\* The engines launched through the driver of f.
EnginesOf(f) ==
  {e \in EngineIds : engines[e].state # "absent" /\ engines[e].driver = f}

\* The stages of rotate_ip in which its controller exists.
RotationStages == {"authenticate", "signal", "controller_exit"}

\* A call of the control channel raised in the rotate_ip of f.
RotationFailed(f) ==
  \/ Has(f, Ev("from_port", "raise"))
  \/ Has(f, Ev("authenticate", "raise"))
  \/ Has(f, Ev("signal", "raise"))

\* C2: an engine handed to scrape_url has been closed exactly once, and is
\* not open any more, when that scrape_url call has returned or raised.
C2_ClosedExactlyOnce ==
  \A f \in Fetches :
    Has(f, Ev("stealth_context", "ok")) /\ pc[f] = "done" =>
      /\ engines[browser[f]].closes = 1
      /\ engines[browser[f]].state # "open"

\* C3: within a call, rotate_ip has ended before the browser is launched
\* and stealth_context has returned before the navigation begins; rotate_ip
\* is never called once the session exists.
C3_PipelineOrder ==
  \A f \in Fetches :
    /\ Before(f, Ev("rotate_ip", "ok"), Ev("launch", "call"))
    /\ Before(f, Ev("rotate_ip", "ok"), Ev("stealth_context", "call"))
    /\ Before(f, Ev("stealth_context", "ok"), Ev("goto", "call"))
    /\ ~ \E i, j \in DOMAIN log[f] :
           i < j /\ log[f][i] = Ev("launch", "call") /\ log[f][j][1] = "rotate_ip"
    /\ pc[f] \in RotationStages \cup {"from_port"} =>
         playwright[f] = "none" /\ EnginesOf(f) = {}
    /\ playwright[f] # "none" => ctl[f] = "closed" /\ Has(f, Ev("rotate_ip", "ok"))
    /\ \A e \in EnginesOf(f) :
         engines[e].navs > 0 =>
           /\ Has(f, Ev("stealth_context", "ok"))
           /\ engines[e].contexts = 1 /\ engines[e].pages = 1

\* A call that went all the way: rotated, built its session and navigated.
C3_Witness ==
  \E f \in Fetches, e \in EngineIds :
    /\ Has(f, Ev("signal", "ok"))
    /\ engines[e].driver = f /\ engines[e].navs = 1
    /\ Has(f, Ev("goto", "ok"))

\* C4: when rotate_ip fails, scrape_url raises that failure, returns no
\* string, and launches no browser, builds no session and navigates nowhere.
C4_RotationFailureIsFatal ==
  \A f \in Fetches :
    RotationFailed(f) =>
      /\ pc[f] \in {"controller_exit", "done"}
      /\ pc[f] = "controller_exit" => exc[f] \in CtlErrors
      /\ pc[f] = "done" =>
           /\ RaisedOut(f)
           /\ Has(f, Ev("from_port", "raise")) => error[f] = "ConnectionRefused"
           /\ Has(f, Ev("authenticate", "raise")) => error[f] = "AuthenticationFailure"
           /\ Has(f, Ev("signal", "raise")) => error[f] = "SignalFailure"
      /\ result[f] = Unbound
      /\ playwright[f] = "none"
      /\ EnginesOf(f) = {}
      /\ ~ Has(f, Ev("launch", "call"))
      /\ ~ Has(f, Ev("stealth_context", "call"))
      /\ ~ Has(f, Ev("goto", "call"))

\* The daemon refused the authentication of one call and the connection of
\* another; both calls have ended.
C4_Witness ==
  \E f, g \in Fetches :
    /\ Has(f, Ev("authenticate", "raise")) /\ pc[f] = "done"
    /\ error[f] = "AuthenticationFailure"
    /\ Has(g, Ev("from_port", "raise")) /\ pc[g] = "done"

\* C5: when the navigation raises, scrape_url does not raise: it returns
\* a string that starts with "Error:", of at most 2000 characters, and the
\* engine has been closed.
C5_NavigationErrorContained ==
  \A f \in Fetches :
    pc[f] = "done" /\ Has(f, Ev("goto", "raise")) =>
      /\ Returned(f)
      /\ StartsWith(result[f], ErrorPrefix)
      /\ Len(result[f]) <= ResultLimit
      /\ engines[browser[f]].state = "closed"

\* C7: when stealth_context fails after the launch, the launched engine is
\* closed by the time the failure has left scrape_url.
C7_NoPartialSession ==
  \A f \in Fetches :
    pc[f] = "done" /\ Has(f, Ev("stealth_context", "raise")) =>
      \A e \in EnginesOf(f) : engines[e].state # "open"

\* C8: when browser.close() raises, scrape_url still returns the page
\* content or error marker it had already computed.
C8_CleanupDoesNotMask ==
  \A f \in Fetches :
    pc[f] = "done" /\ Has(f, Ev("close", "raise")) =>
      Returned(f) /\ result[f] = Truncate(content[f])

\* C9: no control connection outlives the rotate_ip call that opened it,
\* whether the call ended well, in an authentication failure or in a
\* signal failure; and a failure of the rotation is raised, not swallowed.
C9_ControllerReleased ==
  \A f \in Fetches :
    /\ pc[f] \notin RotationStages => ctl[f] \in {"none", "closed"}
    /\ Has(f, Ev("from_port", "ok")) /\ pc[f] \notin RotationStages =>
         ctl[f] = "closed"
    /\ ~ Has(f, Ev("from_port", "ok")) => ctl[f] = "none"
    /\ RotationFailed(f) /\ pc[f] \notin RotationStages =>
         pc[f] = "done" /\ RaisedOut(f) /\ error[f] \in CtlErrors

\* One rotate_ip ended in an authentication failure and another well; the
\* controllers of both are closed.
C9_Witness ==
  \E f, g \in Fetches :
    /\ Has(f, Ev("authenticate", "raise")) /\ pc[f] = "done" /\ ctl[f] = "closed"
    /\ Has(g, Ev("rotate_ip", "ok")) /\ ctl[g] = "closed"

\* The stages in which the fingerprint drawn by a call is in use.
FingerprintStages == {"playwright_enter", "launch", "new_context"}

\* C10: every fingerprint a session is created with has its user agent on
\* the candidate list, its width and height on the width and height lists
\* and the locale "en-US"; a call that rotated always gets a fingerprint.
C10_FingerprintValid ==
  \A f \in Fetches :
    /\ pc[f] \in FingerprintStages =>
         /\ ContextOptions(f).user_agent \in UserAgents
         /\ ContextOptions(f).viewport.width \in {1280, 1366, 1440, 1920}
         /\ ContextOptions(f).viewport.height \in {720, 768, 900, 1080}
         /\ ContextOptions(f).locale = "en-US"
    /\ Has(f, Ev("rotate_ip", "ok")) =>
         pc[f] = "fingerprint" \/ Has(f, Ev("async_playwright", "call"))

\* Two sessions are being created at once, with different user agents and
\* with widths and heights paired crosswise.
C10_Witness ==
  \E f, g \in Fetches :
    /\ pc[f] = "new_context" /\ pc[g] = "new_context"
    /\ ContextOptions(f).viewport = [width |-> 1920, height |-> 720]
    /\ ContextOptions(g).viewport = [width |-> 1280, height |-> 1080]
    /\ ContextOptions(f).user_agent # ContextOptions(g).user_agent

\* C11: under every interleaving each engine and its page belong to one
\* call: the engine a call navigates, reads and closes is the one its own
\* stealth_context launched, no two calls hold the same engine, and no
\* engine serves a second session.
C11_EngineOwnedByOneFetch ==
  /\ \A f \in Fetches :
       /\ browser[f] # NoEngine =>
            /\ engines[browser[f]].state # "absent"
            /\ engines[browser[f]].driver = f
       /\ page[f] # NoEngine => page[f] = browser[f]
       /\ Cardinality(EnginesOf(f)) <= 1
  /\ \A f, g \in Fetches :
       f # g /\ browser[f] # NoEngine => browser[f] # browser[g]
  /\ \A e \in EngineIds :
       /\ engines[e].contexts <= 1 /\ engines[e].pages <= 1
       /\ engines[e].navs <= 1 /\ engines[e].closes <= 1

\* Two calls hold an open engine each at the same time, and each has
\* navigated its own.
C11_Witness ==
  \E f, g \in Fetches :
    /\ f # g
    /\ browser[f] # NoEngine /\ browser[g] # NoEngine
    /\ engines[browser[f]].state = "open" /\ engines[browser[f]].navs = 1
    /\ engines[browser[g]].state = "open" /\ engines[browser[g]].navs = 1

\* The number of times an event stands in the log of f.
Count(f, ev) == Cardinality({i \in DOMAIN log[f] : log[f][i] = ev})

\* The exceptions of the calls inside stealth_context.
SessionErrors == {"LaunchError", "ContextError", "PageError", "InitScriptError"}

\* A step before the navigation raised in the call f.
EarlyFailed(f) == RotationFailed(f) \/ Has(f, Ev("stealth_context", "raise"))

\* C12: only an error of the navigation stage comes back as a string: an
\* error of the rotation, the launch, the context, the page or the init
\* script is raised to the caller, the failed step is not tried again and
\* no navigation is attempted.
C12_EarlyErrorsPropagate ==
  \A f \in Fetches :
    /\ EarlyFailed(f) =>
         /\ ~ Returned(f) /\ result[f] = Unbound
         /\ pc[f] = "done" =>
              /\ RaisedOut(f)
              /\ error[f] \in CtlErrors \cup SessionErrors
              /\ Has(f, Ev("launch", "raise")) => error[f] = "LaunchError"
              /\ Has(f, Ev("new_context", "raise")) => error[f] = "ContextError"
              /\ Has(f, Ev("new_page", "raise")) => error[f] = "PageError"
              /\ Has(f, Ev("add_init_script", "raise")) => error[f] = "InitScriptError"
         /\ ~ Has(f, Ev("goto", "call"))
         /\ Count(f, Ev("rotate_ip", "call")) <= 1
         /\ Count(f, Ev("launch", "call")) <= 1
         /\ Count(f, Ev("new_context", "call")) <= 1
         /\ Count(f, Ev("new_page", "call")) <= 1
         /\ Count(f, Ev("add_init_script", "call")) <= 1
    /\ Returned(f) /\ StartsWith(result[f], ErrorPrefix) => NavFailed(f)

\* One call ended raising the failure of its init script, another returned
\* the marker of a failed navigation.
C12_Witness ==
  \E f, g \in Fetches :
    /\ Has(f, Ev("add_init_script", "raise")) /\ pc[f] = "done"
    /\ RaisedOut(f) /\ error[f] = "InitScriptError"
    /\ Has(g, Ev("goto", "raise")) /\ Returned(g)
    /\ StartsWith(result[g], ErrorPrefix)

\* C13: nothing gates the rotation: while one call is between its own
\* rotation and its navigation, another call can start and finish its
\* rotate_ip; a navigation goes through the circuit of whichever call
\* signalled last, which need not be the navigating call.
C13_RotationNotRequestScoped ==
  /\ \A f, g \in Fetches :
       f # g /\ pc[f] \in BetweenStages /\ pc[g] = "idle" => ENABLED ScrapeUrl(g)
  /\ \A g \in Fetches : running = g => ENABLED Step(g)
  /\ \A e \in EngineIds :
       engines[e].navs > 0 =>
         /\ engines[e].via \in Fetches
         /\ Has(engines[e].via, Ev("signal", "ok"))
         /\ Has(engines[e].driver, Ev("signal", "ok"))

\* A call has navigated through the circuit that the other call's rotation
\* set up after its own.
C13_Witness ==
  \E e \in EngineIds :
    /\ engines[e].navs = 1
    /\ engines[e].via \in Fetches \ {engines[e].driver}
    /\ Has(engines[e].driver, Ev("goto", "ok"))

\* C14: the control-port round trip suspends only the call that makes it:
\* while the controller of one call is open, every other call that has not
\* ended can take its next step.
C14_RotationDoesNotBlock ==
  \A f, g \in Fetches :
    f # g /\ ctl[f] \in {"open", "authenticated"} /\ pc[g] # "done" =>
      ENABLED Step(g)

\* C15: the settle delay comes only after a navigation that succeeded and
\* the content extraction only after the settle delay; when the navigation
\* raises neither is performed; in either case browser.close() is called
\* next, before the result is cut and returned.
C15_DelayAndExtractionOrder ==
  \A f \in Fetches :
    /\ Before(f, Ev("goto", "ok"), Ev("wait_for_timeout", "call"))
    /\ Before(f, Ev("wait_for_timeout", "ok"), Ev("content", "call"))
    /\ Has(f, Ev("goto", "raise")) =>
         /\ ~ Has(f, Ev("wait_for_timeout", "call"))
         /\ ~ Has(f, Ev("content", "call"))
    /\ Has(f, Ev("wait_for_timeout", "raise")) => ~ Has(f, Ev("content", "call"))
    /\ Has(f, Ev("goto", "call")) /\ pc[f] \in {"close", "playwright_exit", "done"} =>
         /\ Count(f, Ev("close", "call")) = 1
         /\ NavFailed(f) \/ Has(f, Ev("content", "ok"))
    /\ Has(f, Ev("close", "call")) => NavFailed(f) \/ Has(f, Ev("content", "ok"))
    /\ Before(f, Ev("close", "ok"), Ev("scrape_url", "return"))
    /\ Returned(f) => Has(f, Ev("scrape_url", "return"))

\* One call returned after navigation, delay, extraction and close; another
\* returned after a navigation that raised, and a close.
C15_Witness ==
  \E f, g \in Fetches :
    /\ Returned(f) /\ Has(f, Ev("wait_for_timeout", "ok"))
    /\ Has(f, Ev("content", "ok")) /\ Has(f, Ev("close", "ok"))
    /\ Returned(g) /\ Has(g, Ev("goto", "raise")) /\ Has(g, Ev("close", "ok"))

\* C16: in every session stealth_context returned, the init script was
\* installed exactly once, after the context was created and before any
\* navigation of the session: every navigation runs with the overrides.
C16_InitScriptOncePerSession ==
  /\ \A f \in Fetches :
       /\ Has(f, Ev("stealth_context", "ok")) =>
            /\ engines[browser[f]].scripts = 1
            /\ Count(f, Ev("add_init_script", "ok")) = 1
       /\ Before(f, Ev("new_context", "ok"), Ev("add_init_script", "call"))
       /\ Before(f, Ev("add_init_script", "ok"), Ev("goto", "call"))
  /\ \A e \in EngineIds :
       /\ engines[e].scripts <= 1
       /\ engines[e].scripts = 1 => engines[e].contexts = 1
       /\ engines[e].navs > 0 => engines[e].scripts = 1

\* A session with its script installed has navigated.
C16_Witness ==
  \E f \in Fetches :
    /\ Has(f, Ev("stealth_context", "ok")) /\ Has(f, Ev("goto", "ok"))
    /\ engines[browser[f]].scripts = 1 /\ engines[browser[f]].navs = 1

\* C17: the prefix tells the outcome: a returned string begins with
\* "Error:" exactly when goto, wait_for_timeout or content raised in that
\* call; a call whose try block succeeded never returns such a string.
C17_PrefixEncodesOutcome ==
  \A f \in Fetches :
    Returned(f) => (StartsWith(result[f], ErrorPrefix) <=> NavFailed(f))

\* One call returned a marker after its settle delay raised, another
\* returned page content that begins with markup.
C17_Witness ==
  \E f, g \in Fetches :
    /\ Returned(f) /\ Has(f, Ev("wait_for_timeout", "raise"))
    /\ StartsWith(result[f], ErrorPrefix)
    /\ Returned(g) /\ Has(g, Ev("content", "ok"))
    /\ ~ StartsWith(result[g], ErrorPrefix) /\ result[g][1] = "<"

\* The loader of the same format as the name's extension, None for a name
\* with no supported extension.
LoaderFor(name) ==
  IF EndsWith(name, dot_csv) THEN "CSVLoader"
  ELSE IF EndsWith(name, dot_json) THEN "JsonLoader"
  ELSE IF EndsWith(name, dot_xls) \/ EndsWith(name, dot_xlsx) THEN "ExcelLoader"
  ELSE None

MethodOf(loader) ==
  CASE loader = "CSVLoader" -> "load_csv"
    [] loader = "JsonLoader" -> "load_json"
    [] loader = "ExcelLoader" -> "load_excel"
    [] OTHER -> None

\* C18: ingest_data hands the file to the loader of the format its name
\* ends in (.csv to CSVLoader, .json to JsonLoader, .xls and .xlsx to
\* ExcelLoader), and for any other name raises 'File type not supported'
\* with no loader made or called.
C18_DispatchBySameFormat ==
  /\ object # None => object = LoaderFor(file_name)
  /\ called # None => called = MethodOf(LoaderFor(file_name))
  /\ calls > 0 /\ LoaderFor(file_name) = None =>
       /\ object = None /\ called = None
       /\ at = "idle" => raised = "ValueError: File type not supported"

====
